---- MODULE Spec2Model ----
(***************************************************************************)
(* Model of ChibiPL/nest-sequelize-db:                                     *)
(*   - ConfigurationDbService (src/unnamed/part_000): the in-memory        *)
(*     configuration cache over the `configuration` table;                 *)
(*   - DbModule / DbModuleRegistry (src/src/db.module.ts): the bootstrap   *)
(*     and the migration run.                                              *)
(* Strings are sequences of tokens, so that startsWith / slice and the     *)
(* 'not-existing:' slot names are computed, not assumed.                   *)
(*                                                                         *)
(* Spec    : the cache. Every call runs to completion before the next one  *)
(*           starts (callers that await each call); store queries succeed, *)
(*           except an insert that violates the primary key. `last` keeps  *)
(*           what the latest call returned, threw, queried and dispatched. *)
(* SpecMig : the bootstrap of a process, step by step through umzug.up(),  *)
(*           and restarts against the same SequelizeMeta table.            *)
(* SpecAsync : the cache with calls in flight. Every `await` of a handler  *)
(*           is a point where the other handlers and the other writers of  *)
(*           the table may run (a store round trip, or listeners that      *)
(*           emitAsync awaits); the query of a poll and the save() of a   *)
(*           set may fail. One call of set and one of getWildcard are in   *)
(*           flight at a time.                                             *)
(* SpecTable : Spec with the rows of the table counted per field, to show  *)
(*           what the primary key on `field` guarantees.                   *)
(* SpecPoll : the cron tick and the other writers of the table; the tick   *)
(*           keeps firing (weak fairness).                                 *)
(* SpecStart : get() step by step in a process whose table may not exist   *)
(*           yet; a query that was issued settles and a timer fires (weak  *)
(*           fairness), the creation of the table is not forced.           *)
(***************************************************************************)
EXTENDS Integers, Sequences, FiniteSets, TLC

VARIABLES
    callers,     \* the keys and the prefixes the callers of this deployment use
    store,       \* the `configuration` table: field -> row (or no row)
    now,         \* the clock that stamps updatedAt on every write
    cache,       \* ConfigurationDbService.cache
    updatedAt,   \* ConfigurationDbService.updatedAt (the watermark)
    cronWorks,   \* ConfigurationDbService.cronWorks
    last,        \* observation: the call that completed last
    pollT,       \* SpecAsync: handleRefreshConfiguration calls in flight, per caller
    setT,        \* SpecAsync: the set() call in flight
    wildT,       \* SpecAsync: the getWildcard() call in flight
    lastEv,      \* observation (SpecAsync): the event dispatched last, and by which call
    committed,   \* observation (SpecAsync): the values the store has committed, per key
    slotMissed,  \* observation (SpecAsync): prefixes whose slot misses a local write
    rowsOf,      \* SpecTable: the number of rows of the table, per field
    tableExists, \* SpecStart: whether the `configuration` table has been created
    getT,        \* SpecStart: the get() call in flight
    migrationPaths,     \* DbModuleRegistry.migrationPaths
    migrationExecuted,  \* DbModule.migrationExecuted (static)
    dialect,            \* sequelize.getDialect()
    meta,               \* the SequelizeMeta table: names of applied units
    pc,                 \* position of the bootstrap of the current process
    pending,            \* the units umzug.up() decided to apply in this run
    idx,                \* index in `pending` of the unit being applied
    runLog,             \* observation: up() calls and records of this run
    startMeta,          \* observation: `meta` when this run computed `pending`
    upDone,             \* observation: successful up() calls per unit name
    runs,               \* observation: number of processes started
    prevRun             \* observation: how the previous process ended

asyncVars == <<pollT, setT, wildT, lastEv, committed, slotMissed>>
auxVars == <<rowsOf, tableExists, getT>>
cacheVars == <<callers, store, now, cache, updatedAt, cronWorks, last, asyncVars,
               auxVars>>
migVars == <<migrationPaths, migrationExecuted, dialect, meta, pc, pending,
             idx, runLog, startMeta, upDone, runs, prevRun>>
vars == <<callers, store, now, cache, updatedAt, cronWorks, last,
          pollT, setT, wildT, lastEv, committed, slotMissed,
          rowsOf, tableExists, getT,
          migrationPaths, migrationExecuted, dialect, meta, pc, pending,
          idx, runLog, startMeta, upDone, runs, prevRun>>

---------------------------------------------------------------------------
(* Bounds *)

MaxTime == 2      \* the clock runs 1..MaxTime
MaxRegs == 2      \* forFeature registrations with a migrations path, per process
MaxRuns == 2      \* processes started against the same store

(* Strings *)

\* the literal 'not-existing:' cut into two tokens, so that a key can be a
\* proper prefix of it
NotExisting == <<"n", "ot-existing:">>

\* the keys and getWildcard prefixes callers use: one deployment whose keys
\* differ in letter case only, and one with a key that the slot name
\* 'not-existing:...' starts with
Deployments ==
    { [keys |-> { <<"a", "b">>, <<"A", "b">> }, prefixes |-> { <<"a">> }],
      [keys |-> { <<"a", "b">>, <<"n">> }, prefixes |-> { <<"a">> }] }

\* configuration values (JSON values; two distinct ones)
Values == {1, 2}

\* JavaScript `undefined`: a value no configuration value equals
Undefined == 0

Epoch == 0

WildName(key) == NotExisting \o key

SlotNames(d) == d.keys \cup { WildName(p) : p \in d.prefixes }

StartsWith(s, p) == Len(p) <= Len(s) /\ SubSeq(s, 1, Len(p)) = p

Slice(s, n) == SubSeq(s, n + 1, Len(s))

Lower(c) == IF c = "A" THEN "a" ELSE c

LowerStr(s) == [i \in 1..Len(s) |-> Lower(s[i])]

\* field ILIKE '<key>%'
ILike(field, key) == StartsWith(LowerStr(field), LowerStr(key))

\* the orders in which a query may return the rows of S
Orders(S) == { f \in [1..Cardinality(S) -> S] :
                 \A i, j \in 1..Cardinality(S) : i # j => f[i] # f[j] }

---------------------------------------------------------------------------
(* Cache slots and store rows *)

NoSlot == [kind |-> "none"]
FalseSlot == [kind |-> "false"]
Entity(k, v) == [kind |-> "entity", field |-> k, value |-> v]
MapSlot(m) == [kind |-> "map", map |-> m]

NoRow == [present |-> FALSE]
Row(v, t) == [present |-> TRUE, value |-> v, updatedAt |-> t]

HasOwn(c, name) == c[name].kind # "none"

\* (slot as ConfigurationEntity).value
ValueOf(slot) == IF slot.kind = "entity" THEN slot.value ELSE Undefined

\* `this.cache[key] ? ... : ...`: an entity or a map is truthy
Truthy(slot) == slot.kind \in {"entity", "map"}

Event(name, payload) == [name |-> name, payload |-> payload]
Change(f, b, a) == [field |-> f, before |-> b, after |-> a]

NoCall == [op |-> "none"]

---------------------------------------------------------------------------
(* Wildcard invalidation and event dispatch *)

\* deleteWildCards(field): every own key x of the cache with
\* ('not-existing:' + field).startsWith(x) is deleted
deleteWildCards(c, field) ==
    [x \in DOMAIN c |->
        IF HasOwn(c, x) /\ StartsWith(WildName(field), x) THEN NoSlot ELSE c[x]]

RECURSIVE onConfigSet(_, _)
onConfigSet(c, payload) ==
    IF payload = <<>> THEN c
    ELSE onConfigSet(deleteWildCards(c, Head(payload).field), Tail(payload))

RECURSIVE onConfigModified(_, _)
onConfigModified(c, payload) ==
    IF payload = <<>> THEN c
    ELSE onConfigModified(deleteWildCards(c, Head(payload).field), Tail(payload))

\* eventEmitter.emitAsync(name, payload): the listeners this class registers
\* run on the cache; the result is the cache they leave
EmitAsync(c, ev) ==
    IF ev.name = "configuration.set" THEN onConfigSet(c, ev.payload)
    ELSE IF ev.name = "configuration.modified" THEN onConfigModified(c, ev.payload)
    ELSE c

---------------------------------------------------------------------------
(* The operations, as functions of the state they read *)

\* what a call leaves: the cache, the store, the watermark, what it returned
\* or threw, the store queries and writes it issued, the events it dispatched
Outcome(c, st, wm, ret, retMap, threw, queries, writes, events) ==
    [cache |-> c, store |-> st, updatedAt |-> wm, ret |-> ret, retMap |-> retMap,
     threw |-> threw, queries |-> queries, writes |-> writes, events |-> events]

\* get(key) as it would be if a miss were not remembered
GetCallForgetsMiss(c, st, wm, key) ==
    LET hit == HasOwn(c, key)
        c1 == IF hit \/ ~st[key].present THEN c
              ELSE [c EXCEPT ![key] = Entity(key, st[key].value)]
        ret == IF HasOwn(c1, key) THEN ValueOf(c1[key]) ELSE Undefined
    IN Outcome(c1, st, wm, ret, <<>>, "none", IF hit THEN 0 ELSE 1, 0, <<>>)

\* get(key)
GetCall(c, st, wm, key) ==
    LET hit == HasOwn(c, key)
        c1 == IF hit THEN c
              ELSE [c EXCEPT ![key] = IF st[key].present
                                        THEN Entity(key, st[key].value)
                                        ELSE FalseSlot]
        ret == IF c1[key] = FalseSlot THEN Undefined ELSE ValueOf(c1[key])
    IN Outcome(c1, st, wm, ret, <<>>, "none", IF hit THEN 0 ELSE 1, 0, <<>>)

\* instance.save(): an UPDATE of the row, issued only when a field changed
Save(st, t, key, before, value) ==
    IF value # before THEN [st EXCEPT ![key] = Row(value, t)] ELSE st

\* set(key, value) as it would be if `field` were not the primary key of the
\* table: create() inserts a row whether one exists or not
SetCallWithoutKey(c, st, wm, t, key, value) ==
    IF ~HasOwn(c, key) \/ c[key] = FalseSlot
    THEN LET st1 == [st EXCEPT ![key] = Row(value, t)]
             c1 == [c EXCEPT ![key] = Entity(key, value)]
             e1 == Event("configuration.created",
                         <<Change(key, Undefined, ValueOf(c1[key]))>>)
             c2 == EmitAsync(c1, e1)
             e2 == Event("configuration.set",
                         <<Change(key, Undefined, ValueOf(c2[key]))>>)
             c3 == EmitAsync(c2, e2)
         IN IF HasOwn(c3, key)
            THEN Outcome(c3, st1, wm, ValueOf(c3[key]), <<>>, "none", 0, 1, <<e1, e2>>)
            ELSE Outcome(c3, st1, wm, Undefined, <<>>, "TypeError", 0, 1, <<e1, e2>>)
    ELSE LET before == ValueOf(c[key])
             c1 == [c EXCEPT ![key] = Entity(c[key].field, value)]
             st1 == Save(st, t, key, before, value)
             e == Event("configuration.set", <<Change(key, before, ValueOf(c1[key]))>>)
             c2 == EmitAsync(c1, e)
         IN Outcome(c2, st1, wm, value, <<>>, "none", 0,
                    IF st1 = st THEN 0 ELSE 1, <<e>>)

\* set(key, value)
SetCall(c, st, wm, t, key, value) ==
    IF ~HasOwn(c, key) \/ c[key] = FalseSlot
    THEN IF st[key].present
         THEN \* create() hits the primary key of the table
              Outcome(c, st, wm, Undefined, <<>>, "UniqueConstraintError", 0, 0, <<>>)
         ELSE LET st1 == [st EXCEPT ![key] = Row(value, t)]
                  c1 == [c EXCEPT ![key] = Entity(key, value)]
                  e1 == Event("configuration.created",
                              <<Change(key, Undefined, ValueOf(c1[key]))>>)
                  c2 == EmitAsync(c1, e1)
                  e2 == Event("configuration.set",
                              <<Change(key, Undefined, ValueOf(c2[key]))>>)
                  c3 == EmitAsync(c2, e2)
              IN IF HasOwn(c3, key)
                 THEN Outcome(c3, st1, wm, ValueOf(c3[key]), <<>>, "none", 0, 1, <<e1, e2>>)
                 ELSE \* this.cache[key] is undefined at the return
                      Outcome(c3, st1, wm, Undefined, <<>>, "TypeError", 0, 1, <<e1, e2>>)
    ELSE LET before == ValueOf(c[key])
             c1 == [c EXCEPT ![key] = Entity(c[key].field, value)]
             st1 == Save(st, t, key, before, value)
             e == Event("configuration.set", <<Change(key, before, ValueOf(c1[key]))>>)
             c2 == EmitAsync(c1, e)
         IN Outcome(c2, st1, wm, value, <<>>, "none", 0,
                    IF st1 = st THEN 0 ELSE 1, <<e>>)

\* update(key, value) as it would be if it created the row of a key that has
\* no positive slot
UpdateCallUpserts(c, st, wm, t, key, value) ==
    IF st[key].present
    THEN Outcome(c, st, wm, Undefined, <<>>, "UniqueConstraintError", 0, 0, <<>>)
    ELSE LET st1 == [st EXCEPT ![key] = Row(value, t)]
             c1 == [c EXCEPT ![key] = Entity(key, value)]
             e == Event("configuration.modified",
                        <<Change(key, Undefined, ValueOf(c1[key]))>>)
             c2 == EmitAsync(c1, e)
         IN IF HasOwn(c2, key)
            THEN Outcome(c2, st1, wm, ValueOf(c2[key]), <<>>, "none", 0, 1, <<e>>)
            ELSE Outcome(c2, st1, wm, Undefined, <<>>, "TypeError", 0, 1, <<e>>)

\* update(key, value)
UpdateCall(c, st, wm, t, key, value) ==
    IF ~HasOwn(c, key) \/ c[key] = FalseSlot
    THEN Outcome(c, st, wm, Undefined, <<>>, "none", 0, 0, <<>>)
    ELSE IF st[key].present
         THEN Outcome(c, st, wm, Undefined, <<>>, "UniqueConstraintError", 0, 0, <<>>)
         ELSE LET st1 == [st EXCEPT ![key] = Row(value, t)]
                  c1 == [c EXCEPT ![key] = Entity(key, value)]
                  e == Event("configuration.modified",
                             <<Change(key, Undefined, ValueOf(c1[key]))>>)
                  c2 == EmitAsync(c1, e)
              IN IF HasOwn(c2, key)
                 THEN Outcome(c2, st1, wm, ValueOf(c2[key]), <<>>, "none", 0, 1, <<e>>)
                 ELSE Outcome(c2, st1, wm, Undefined, <<>>, "TypeError", 0, 1, <<e>>)

\* the rows a prefix scan for `key` matches
Matching(st, key) == { f \in DOMAIN st : st[f].present /\ ILike(f, key) }

\* for (const row of values) tmp[row.field.slice(key.length)] = row.value
RECURSIVE BuildMap(_, _, _, _)
BuildMap(rows, st, key, tmp) ==
    IF rows = <<>> THEN tmp
    ELSE LET suf == Slice(Head(rows), Len(key))
             tmp1 == [s \in DOMAIN tmp \cup {suf} |->
                         IF s = suf THEN st[Head(rows)].value ELSE tmp[s]]
         IN BuildMap(Tail(rows), st, key, tmp1)

\* getWildcard(key); `rows` is the order in which the scan returned its rows
GetWildcardCall(c, st, wm, key, rows) ==
    LET cacheKey == WildName(key)
        hit == HasOwn(c, cacheKey)
        c1 == IF hit THEN c
              ELSE [c EXCEPT ![cacheKey] = MapSlot(BuildMap(rows, st, key, <<>>))]
        m == IF c1[cacheKey].kind = "map" THEN c1[cacheKey].map ELSE <<>>
    IN Outcome(c1, st, wm, Undefined, m, "none", IF hit THEN 0 ELSE 1, 0, <<>>)

\* the rows a poll finds: updatedAt strictly greater than the watermark
Changed(st, wm) == { f \in DOMAIN st : st[f].present /\ st[f].updatedAt > wm }

\* the query as it would be without its ORDER BY
AscendingUnordered(st, S) == Orders(S)

\* ORDER BY updatedAt ASC: the orders the store may return (ties in any order)
Ascending(st, S) ==
    { f \in Orders(S) :
        \A i, j \in 1..Len(f) : i < j => st[f[i]].updatedAt <= st[f[j]].updatedAt }

\* changes.map(...): the cache and the batch it builds, row by row
RECURSIVE Mapped(_, _, _, _)
Mapped(rows, st, c, batch) ==
    IF rows = <<>> THEN [cache |-> c, batch |-> batch]
    ELSE LET f == Head(rows)
             before == IF Truthy(c[f]) THEN ValueOf(c[f]) ELSE Undefined
             c1 == [c EXCEPT ![f] = Entity(f, st[f].value)]
         IN Mapped(Tail(rows), st, c1, Append(batch, Change(f, before, st[f].value)))

\* handleRefreshConfiguration(isFirstRun), entered with cronWorks false;
\* `rows` is the order in which the query returned the changed rows
handleRefreshConfiguration(c, st, wm, isFirstRun, rows) ==
    IF Len(rows) > 0
    THEN LET m == Mapped(rows, st, c, <<>>)
             evs == IF isFirstRun
                    THEN <<Event("configuration.read", m.batch)>>
                    ELSE <<Event("configuration.updated", m.batch),
                           Event("configuration.modified", m.batch)>>
             c1 == IF isFirstRun THEN EmitAsync(m.cache, evs[1])
                   ELSE EmitAsync(EmitAsync(m.cache, evs[1]), evs[2])
         IN Outcome(c1, st, st[rows[Len(rows)]].updatedAt, Undefined, <<>>,
                    "none", 1, 0, evs)
    ELSE Outcome(c, st, wm, Undefined, <<>>, "none", 1, 0, <<>>)

\* onReloadRequest(), entered with cronWorks false: it resets the watermark
\* and calls handleRefreshConfiguration() without an argument
onReloadRequest(c, st, rows) ==
    handleRefreshConfiguration(c, st, Epoch, FALSE, rows)

---------------------------------------------------------------------------
(* Observation of calls *)

\* the record of a completed call: its arguments and what it returned,
\* threw and did
Call(op, key, value, o) ==
    [op |-> op, key |-> key, value |-> value,
     ret |-> o.ret, retMap |-> o.retMap, threw |-> o.threw,
     queries |-> o.queries, writes |-> o.writes, events |-> o.events]

\* a call runs to completion on the one logical worker and leaves `o`
Complete(op, key, value, o) ==
    /\ cache' = o.cache
    /\ store' = o.store
    /\ updatedAt' = o.updatedAt
    /\ last' = Call(op, key, value, o)
    /\ UNCHANGED <<callers, now, asyncVars, auxVars, migVars>>

---------------------------------------------------------------------------
(* Actions of the configuration cache *)

Get(key) ==
    /\ Complete("get", key, Undefined, GetCall(cache, store, updatedAt, key))
    /\ UNCHANGED cronWorks

Set(key, value) ==
    /\ Complete("set", key, value, SetCall(cache, store, updatedAt, now, key, value))
    /\ UNCHANGED cronWorks

Update(key, value) ==
    /\ Complete("update", key, value,
                UpdateCall(cache, store, updatedAt, now, key, value))
    /\ UNCHANGED cronWorks

GetWildcard(key) ==
    /\ \E rows \in Orders(Matching(store, key)) :
          Complete("getWildcard", key, Undefined,
                   GetWildcardCall(cache, store, updatedAt, key, rows))
    /\ UNCHANGED cronWorks

\* the cron tick, the `configuration.refresh` request (both call it without
\* an argument) and a direct call with isFirstRun
HandleRefreshConfiguration(isFirstRun) ==
    /\ ~cronWorks
    /\ \E rows \in Ascending(store, Changed(store, updatedAt)) :
          Complete(IF isFirstRun THEN "firstRun" ELSE "poll", <<>>, Undefined,
                   handleRefreshConfiguration(cache, store, updatedAt, isFirstRun, rows))
    /\ cronWorks' = FALSE

OnReloadRequest ==
    /\ ~cronWorks
    /\ \E rows \in Ascending(store, Changed(store, Epoch)) :
          Complete("reload", <<>>, Undefined, onReloadRequest(cache, store, rows))
    /\ cronWorks' = FALSE

\* another process (or an admin tool) writes a row of the table
ExternalWrite(key, value) ==
    /\ store' = [store EXCEPT ![key] = Row(value, now)]
    /\ last' = [op |-> "external", key |-> key, value |-> value]
    /\ UNCHANGED <<callers, now, cache, updatedAt, cronWorks, asyncVars, auxVars, migVars>>

Tick ==
    /\ now < MaxTime
    /\ now' = now + 1
    /\ UNCHANGED <<callers, store, cache, updatedAt, cronWorks, last, asyncVars,
                   auxVars, migVars>>

---------------------------------------------------------------------------
(* Initial state *)

\* the callers of handleRefreshConfiguration: the cron tick, the
\* `configuration.refresh` listener and onReloadRequest
Pollers == {"cron", "refresh", "reload"}

Idle == [pc |-> "idle"]

\* an event is dispatched by call `by`
Dispatched(by, name) == [by |-> by, name |-> name]

\* no call is in flight and nothing has been dispatched or committed
InitTasks ==
    /\ pollT = [i \in Pollers |-> Idle]
    /\ setT = Idle
    /\ wildT = Idle
    /\ lastEv = Dispatched("none", "none")
    /\ committed = [k \in callers.keys |-> {}]
    /\ slotMissed = {}
    /\ rowsOf = [k \in callers.keys |-> 0]
    /\ getT = Idle

InitCache ==
    /\ callers \in Deployments
    /\ store = [k \in callers.keys |-> NoRow]
    /\ now = 1
    /\ cache = [x \in SlotNames(callers) |-> NoSlot]
    /\ updatedAt = Epoch
    /\ cronWorks = FALSE
    /\ last = NoCall
    /\ InitTasks
    /\ tableExists = TRUE

Next ==
    \/ \E k \in callers.keys : Get(k)
    \/ \E k \in callers.keys, v \in Values : Set(k, v)
    \/ \E k \in callers.keys, v \in Values : Update(k, v)
    \/ \E p \in callers.prefixes : GetWildcard(p)
    \/ \E b \in BOOLEAN : HandleRefreshConfiguration(b)
    \/ OnReloadRequest
    \/ \E k \in callers.keys, v \in Values : ExternalWrite(k, v)
    \/ Tick

---------------------------------------------------------------------------
(* Migration files on disk *)

\* a file name is <<stem, extension>>; '.d.ts' also ends with '.ts'
EndsWith(file, suffix) ==
    \/ file[2] = suffix
    \/ suffix = ".ts" /\ file[2] = ".d.ts"

BasePath == "migrations"

\* the migration paths feature modules register
Paths == {"users", "orders", "billing", "missing"}

\* fs.existsSync(path)
ExistsSync(path) == path # "missing"

\* fs.readdirSync(path), in the order the directory lists its files; 'users'
\* and 'orders' each ship a file of the same name
ReaddirSync(path) ==
    CASE path = BasePath -> << <<"000-configuration", ".js">> >>
      [] path = "users" -> << <<"001-init", ".ts">>, <<"001-init", ".d.ts">>,
                              <<"002-roles", ".js">> >>
      [] path = "orders" -> << <<"001-init", ".ts">> >>
      [] path = "billing" -> << <<"003-invoices", ".ts">>, <<"README", ".md">> >>
      [] OTHER -> <<>>

IsMigrationFile(file) ==
    (EndsWith(file, ".ts") \/ EndsWith(file, ".js")) /\ ~EndsWith(file, ".d.ts")

\* a unit: its name is the file name, without the directory
Unit(file, path, moduleName) == [name |-> file, path |-> <<path, file>>,
                                 moduleName |-> moduleName]

RECURSIVE FilesOf(_, _)
FilesOf(files, info) ==
    IF files = <<>> THEN <<>>
    ELSE (IF IsMigrationFile(Head(files))
          THEN <<Unit(Head(files), info.path, info.moduleName)>> ELSE <<>>)
         \o FilesOf(Tail(files), info)

\* the loop over allMigrationPaths that fills migrationFiles
RECURSIVE MigrationFiles(_)
MigrationFiles(allMigrationPaths) ==
    IF allMigrationPaths = <<>> THEN <<>>
    ELSE (IF ExistsSync(Head(allMigrationPaths).path)
          THEN FilesOf(ReaddirSync(Head(allMigrationPaths).path),
                       Head(allMigrationPaths))
          ELSE <<>>)
         \o MigrationFiles(Tail(allMigrationPaths))

\* the list as it would be with the base path appended, not prepended
AllMigrationPathsBaseLast(registered) ==
    registered \o <<[path |-> BasePath, moduleName |-> "DbModule (base)"]>>

\* [base, ...registeredMigrationPaths]
AllMigrationPaths(registered) ==
    <<[path |-> BasePath, moduleName |-> "DbModule (base)"]>> \o registered

\* umzug.up() as it would be if it did not consult the storage
UmzugPendingAll(migrations, executed) == migrations

\* umzug.up(): the migrations whose name the storage has not recorded, in
\* the order the migrations function returned them
UmzugPending(migrations, executed) ==
    SelectSeq(migrations, LAMBDA m : m.name \notin executed)

\* every file name on disk
FileNames ==
    UNION { { ReaddirSync(p)[i] : i \in 1..Len(ReaddirSync(p)) } :
            p \in Paths \cup {BasePath} }

---------------------------------------------------------------------------
(* Actions of the bootstrap and the migration run *)

\* DbModule.forFeature({ migrationsPath, moduleName }), called while the
\* modules of the application are being defined
ForFeature(path, moduleName) ==
    /\ pc = "idle"
    /\ Len(migrationPaths) < MaxRegs
    /\ migrationPaths' = Append(migrationPaths,
                                [path |-> path, moduleName |-> moduleName])
    /\ UNCHANGED <<migrationExecuted, dialect, meta, pc, pending, idx, runLog,
                   startMeta, upDone, runs, prevRun, cacheVars>>

\* migrate(), up to the first migration of umzug.up()
MigrateStart ==
    IF dialect # "sqlite"
    THEN /\ pending' = UmzugPending(
                          MigrationFiles(AllMigrationPaths(migrationPaths)), meta)
         /\ startMeta' = meta
         /\ idx' = 1
         /\ pc' = "migrating"
    ELSE /\ pc' = "started"
         /\ UNCHANGED <<pending, startMeta, idx>>

\* onApplicationBootstrap() of one DbModule instance
OnApplicationBootstrap ==
    /\ pc \in {"idle", "migrating", "logging", "started"}
    /\ IF migrationExecuted
       THEN UNCHANGED <<migrationExecuted, pc, pending, startMeta, idx>>
       ELSE /\ migrationExecuted' = TRUE
            /\ \E syncOk \in BOOLEAN :
                 IF syncOk THEN MigrateStart
                 ELSE \* sequelize.sync() threw and the error is rethrown
                      /\ pc' = "failed"
                      /\ UNCHANGED <<pending, startMeta, idx>>
    /\ UNCHANGED <<migrationPaths, dialect, meta, runLog, upDone, runs,
                   prevRun, cacheVars>>

\* the step as it would be if the catch of onApplicationBootstrap logged the
\* MigrationError and went on to 'Database Started'
MigrationUpSwallowed ==
    /\ pc = "migrating"
    /\ idx <= Len(pending)
    /\ \E ok \in BOOLEAN :
         /\ runLog' = Append(runLog, [kind |-> "up", idx |-> idx,
                                      name |-> pending[idx].name, ok |-> ok])
         /\ upDone' = IF ok THEN [upDone EXCEPT ![pending[idx].name] = @ + 1]
                      ELSE upDone
         /\ pc' = IF ok THEN "logging" ELSE "started"
    /\ UNCHANGED <<migrationPaths, migrationExecuted, dialect, meta, pending,
                   idx, startMeta, runs, prevRun, cacheVars>>

\* the step as it would be if a failed up() were logged and skipped over
MigrationUpKeepsGoing ==
    /\ pc = "migrating"
    /\ idx <= Len(pending)
    /\ \E ok \in BOOLEAN :
         /\ runLog' = Append(runLog, [kind |-> "up", idx |-> idx,
                                      name |-> pending[idx].name, ok |-> ok])
         /\ upDone' = IF ok THEN [upDone EXCEPT ![pending[idx].name] = @ + 1]
                      ELSE upDone
         /\ pc' = "logging"
    /\ UNCHANGED <<migrationPaths, migrationExecuted, dialect, meta, pending,
                   idx, startMeta, runs, prevRun, cacheVars>>

\* umzug.up() calls up() of the next pending migration; a failure becomes a
\* MigrationError, which onApplicationBootstrap answers with process.exit(1)
MigrationUp ==
    /\ pc = "migrating"
    /\ idx <= Len(pending)
    /\ \E ok \in BOOLEAN :
         /\ runLog' = Append(runLog, [kind |-> "up", idx |-> idx,
                                      name |-> pending[idx].name, ok |-> ok])
         /\ upDone' = IF ok THEN [upDone EXCEPT ![pending[idx].name] = @ + 1]
                      ELSE upDone
         /\ pc' = IF ok THEN "logging" ELSE "exited"
    /\ UNCHANGED <<migrationPaths, migrationExecuted, dialect, meta, pending,
                   idx, startMeta, runs, prevRun, cacheVars>>

\* SequelizeStorage.logMigration(): an insert into SequelizeMeta, whose name
\* column is its primary key
LogMigration ==
    /\ pc = "logging"
    /\ IF pending[idx].name \in meta
       THEN /\ pc' = "exited"
            /\ UNCHANGED <<meta, runLog, idx>>
       ELSE /\ meta' = meta \cup {pending[idx].name}
            /\ runLog' = Append(runLog, [kind |-> "record", idx |-> idx,
                                         name |-> pending[idx].name, ok |-> TRUE])
            /\ idx' = idx + 1
            /\ pc' = "migrating"
    /\ UNCHANGED <<migrationPaths, migrationExecuted, dialect, pending,
                   startMeta, upDone, runs, prevRun, cacheVars>>

\* umzug.up() has no migration left: migrate() returns, 'Database Started'
MigrateDone ==
    /\ pc = "migrating"
    /\ idx > Len(pending)
    /\ pc' = "started"
    /\ UNCHANGED <<migrationPaths, migrationExecuted, dialect, meta, pending,
                   idx, runLog, startMeta, upDone, runs, prevRun, cacheVars>>

\* the process ends and a new one starts against the same store: the static
\* fields start over, the tables stay
Restart ==
    /\ pc \in {"started", "exited", "failed"}
    /\ runs < MaxRuns
    /\ runs' = runs + 1
    /\ prevRun' = [paths |-> migrationPaths, ended |-> pc]
    /\ migrationPaths' = <<>>
    /\ migrationExecuted' = FALSE
    /\ pc' = "idle"
    /\ pending' = <<>>
    /\ idx' = 0
    /\ runLog' = <<>>
    /\ startMeta' = meta
    /\ UNCHANGED <<dialect, meta, upDone, cacheVars>>

---------------------------------------------------------------------------
(* Specifications *)

InitMig ==
    /\ migrationPaths = <<>>
    /\ migrationExecuted = FALSE
    /\ dialect \in {"postgres", "sqlite"}
    /\ meta = {}
    /\ pc = "idle"
    /\ pending = <<>>
    /\ idx = 0
    /\ runLog = <<>>
    /\ startMeta = {}
    /\ upDone = [n \in FileNames |-> 0]
    /\ runs = 1
    /\ prevRun = [paths |-> <<>>, ended |-> "none"]

\* the configuration cache, in a process that has started
Init == InitCache /\ InitMig /\ dialect = "postgres"

Spec == Init /\ [][Next]_vars

NextMig ==
    \/ \E p \in Paths : ForFeature(p, p)
    \/ OnApplicationBootstrap
    \/ MigrationUp
    \/ LogMigration
    \/ MigrateDone
    \/ Restart

\* the bootstrap and the migration run, before the cache serves any call
InitBoot == InitMig /\ InitCache /\ callers = CHOOSE d \in Deployments : TRUE

SpecMig == InitBoot /\ [][NextMig]_vars

---------------------------------------------------------------------------
(* The cache with calls in flight (specification SpecAsync) *)

\* the callers of a deployment: the keys and prefixes they use, the values
\* they set, and which callers of handleRefreshConfiguration are wired.
\* One deployment only polls and reloads, one sets and polls, one sets and
\* scans
AsyncDeployments ==
    { [keys |-> { <<"a", "b">> }, prefixes |-> {}, values |-> {},
       pollers |-> {"cron", "refresh", "reload"}],
      [keys |-> { <<"a", "b">> }, prefixes |-> {}, values |-> Values,
       pollers |-> {"cron"}],
      [keys |-> { <<"a", "b">> }, prefixes |-> { <<"a">> }, values |-> Values,
       pollers |-> {}] }

\* the prefixes of `sm` that still have a slot in cache `c`
Missed(sm, c) == { p \in sm : HasOwn(c, WildName(p)) }

\* the prefixes with a slot in `c` whose scan matches `field`
SlotsOver(c, field) ==
    { p \in callers.prefixes : HasOwn(c, WildName(p)) /\ ILike(field, p) }

\* a scan whose rows were read before a write of `field` has missed it
ScanAfterWrite(w, field) ==
    IF w.pc = "rows" /\ ILike(field, w.key) THEN [w EXCEPT !.missed = TRUE] ELSE w

\* a poll that started after the external write and ended, all while set()
\* awaited its save()
SetAfterPoll(t, p) ==
    IF t.pc = "save" /\ p.inSet /\ t.polls < 2
    THEN [t EXCEPT !.polls = @ + 1] ELSE t

\* handleRefreshConfiguration() as it would be without its first line
PollCallUnguarded(i) ==
    /\ pollT[i].pc = "idle"
    /\ cronWorks' = TRUE
    /\ pollT' = [pollT EXCEPT ![i] = [pc |-> "query", wm |-> updatedAt,
                                      inSet |-> setT.pc = "save" /\ setT.ext]]
    /\ UNCHANGED <<callers, store, now, cache, updatedAt, last, setT, wildT,
                   lastEv, committed, slotMissed, auxVars, migVars>>

\* handleRefreshConfiguration(), called by the cron tick or by the
\* `configuration.refresh` listener: up to the await of findAll
PollCall(i) ==
    /\ pollT[i].pc = "idle"
    /\ IF cronWorks
       THEN /\ last' = [op |-> "poll", by |-> i, ret |-> "skipped"]
            /\ UNCHANGED <<cronWorks, pollT>>
       ELSE /\ cronWorks' = TRUE
            /\ pollT' = [pollT EXCEPT ![i] = [pc |-> "query", wm |-> updatedAt,
                                              inSet |-> setT.pc = "save" /\ setT.ext]]
            /\ UNCHANGED last
    /\ UNCHANGED <<callers, store, now, cache, updatedAt, setT, wildT,
                   lastEv, committed, slotMissed, auxVars, migVars>>

\* onReloadRequest() as it would be without its first line: the watermark is
\* reset, handleRefreshConfiguration() returns at once, the cache is returned
ReloadCallUnguarded ==
    /\ pollT["reload"].pc = "idle"
    /\ updatedAt' = Epoch
    /\ IF cronWorks
       THEN /\ last' = [op |-> "reload", by |-> "reload", ret |-> "cache"]
            /\ UNCHANGED <<cronWorks, pollT>>
       ELSE /\ cronWorks' = TRUE
            /\ pollT' = [pollT EXCEPT !["reload"] =
                            [pc |-> "query", wm |-> Epoch, inSet |-> setT.pc = "save" /\ setT.ext]]
            /\ UNCHANGED last
    /\ UNCHANGED <<callers, store, now, cache, setT, wildT,
                   lastEv, committed, slotMissed, auxVars, migVars>>

\* onReloadRequest(): up to the await of findAll inside
\* handleRefreshConfiguration()
ReloadCall ==
    /\ pollT["reload"].pc = "idle"
    /\ IF cronWorks
       THEN /\ last' = [op |-> "reload", by |-> "reload", ret |-> "in progress"]
            /\ UNCHANGED <<cronWorks, pollT, updatedAt>>
       ELSE /\ updatedAt' = Epoch
            /\ cronWorks' = TRUE
            /\ pollT' = [pollT EXCEPT !["reload"] =
                            [pc |-> "query", wm |-> Epoch, inSet |-> setT.pc = "save" /\ setT.ext]]
            /\ UNCHANGED last
    /\ UNCHANGED <<callers, store, now, cache, setT, wildT,
                   lastEv, committed, slotMissed, auxVars, migVars>>

\* the record of a handleRefreshConfiguration / onReloadRequest call that
\* ran to its end
PollReturn(i) ==
    [op |-> IF i = "reload" THEN "reload" ELSE "poll", by |-> i,
     ret |-> IF i = "reload" THEN "cache" ELSE "done"]

\* findAll resolves: with no change the call ends; otherwise the rows are put
\* in the cache and `configuration.updated` is dispatched
PollQueryDone(i) ==
    /\ pollT[i].pc = "query"
    /\ \E rows \in Ascending(store, Changed(store, pollT[i].wm)) :
         IF Len(rows) > 0
         THEN LET m == Mapped(rows, store, cache, <<>>)
                  c1 == EmitAsync(m.cache, Event("configuration.updated", m.batch))
              IN /\ cache' = c1
                 /\ slotMissed' = Missed(slotMissed, c1)
                 /\ lastEv' = Dispatched(i, "configuration.updated")
                 /\ pollT' = [pollT EXCEPT ![i] =
                                 [pc |-> "updated", batch |-> m.batch,
                                  lastAt |-> store[rows[Len(rows)]].updatedAt,
                                  inSet |-> pollT[i].inSet]]
                 /\ UNCHANGED <<cronWorks, last, setT>>
         ELSE /\ cronWorks' = FALSE
              /\ pollT' = [pollT EXCEPT ![i] = Idle]
              /\ last' = PollReturn(i)
              /\ setT' = SetAfterPoll(setT, pollT[i])
              /\ UNCHANGED <<cache, slotMissed, lastEv>>
    /\ UNCHANGED <<callers, store, now, updatedAt, wildT, committed, auxVars, migVars>>

\* findAll rejects (the store is unreachable): the call throws out of
\* handleRefreshConfiguration at the await
PollQueryFail(i) ==
    /\ pollT[i].pc = "query"
    /\ pollT' = [pollT EXCEPT ![i] = Idle]
    /\ last' = [op |-> IF i = "reload" THEN "reload" ELSE "poll", by |-> i,
                ret |-> "threw"]
    /\ UNCHANGED <<callers, store, now, cache, updatedAt, cronWorks, setT, wildT,
                   lastEv, committed, slotMissed, auxVars, migVars>>

\* after the await of `configuration.updated`: `configuration.modified` is
\* dispatched, and its listener of this class invalidates wildcard slots
PollModified(i) ==
    /\ pollT[i].pc = "updated"
    /\ LET c1 == EmitAsync(cache, Event("configuration.modified", pollT[i].batch))
       IN /\ cache' = c1
          /\ slotMissed' = Missed(slotMissed, c1)
    /\ lastEv' = Dispatched(i, "configuration.modified")
    /\ pollT' = [pollT EXCEPT ![i].pc = "modified"]
    /\ UNCHANGED <<callers, store, now, updatedAt, cronWorks, last, setT, wildT,
                   committed, auxVars, migVars>>

\* after the await of `configuration.modified`: the watermark moves to the
\* last row of the batch and the guard is released
PollEnd(i) ==
    /\ pollT[i].pc = "modified"
    /\ updatedAt' = pollT[i].lastAt
    /\ cronWorks' = FALSE
    /\ pollT' = [pollT EXCEPT ![i] = Idle]
    /\ last' = PollReturn(i)
    /\ setT' = SetAfterPoll(setT, pollT[i])
    /\ UNCHANGED <<callers, store, now, cache, wildT, lastEv, committed,
                   slotMissed, auxVars, migVars>>

\* the record of a set() call that returned or threw
SetReturned(t, ret, threw) ==
    [op |-> "set", key |-> t.key, value |-> t.value, ret |-> ret, threw |-> threw]

\* the record of a set() call on a positive slot that returned saved.value,
\* with the event it dispatched
SetSaved(t, e) ==
    [op |-> "set", key |-> t.key, value |-> t.value, ret |-> t.value,
     threw |-> "none", events |-> <<e>>]

\* set(key, value): up to its first await. Without a positive slot that is
\* the await of create(); with one, the slot's entity is given the new value
\* and save() is awaited
SetBegin(key, value) ==
    /\ setT.pc = "idle"
    /\ IF ~HasOwn(cache, key) \/ cache[key] = FalseSlot
       THEN /\ setT' = [pc |-> "create", key |-> key, value |-> value,
                        before |-> Undefined, ext |-> FALSE, polls |-> 0]
            /\ UNCHANGED <<cache, pollT>>
       ELSE /\ setT' = [pc |-> "save", key |-> key, value |-> value,
                        before |-> ValueOf(cache[key]), ext |-> FALSE, polls |-> 0]
            /\ cache' = [cache EXCEPT ![key] = Entity(cache[key].field, value)]
            /\ pollT' = [i \in Pollers |->
                            IF pollT[i].pc = "idle" THEN pollT[i]
                            ELSE [pollT[i] EXCEPT !.inSet = FALSE]]
    /\ UNCHANGED <<callers, store, now, updatedAt, cronWorks, last, wildT,
                   lastEv, committed, slotMissed, auxVars, migVars>>

\* create() resolves or rejects on the primary key; the new entity becomes
\* the slot and `configuration.created` is dispatched
SetCreateDone ==
    /\ setT.pc = "create"
    /\ LET key == setT.key
           value == setT.value
       IN IF store[key].present
          THEN /\ setT' = Idle
               /\ last' = SetReturned(setT, Undefined, "UniqueConstraintError")
               /\ UNCHANGED <<store, cache, lastEv, committed, slotMissed, wildT>>
          ELSE LET c1 == [cache EXCEPT ![key] = Entity(key, value)]
                   e1 == Event("configuration.created",
                               <<Change(key, Undefined, ValueOf(c1[key]))>>)
                   c2 == EmitAsync(c1, e1)
               IN /\ store' = [store EXCEPT ![key] = Row(value, now)]
                  /\ committed' = [committed EXCEPT ![key] = @ \cup {value}]
                  /\ cache' = c2
                  /\ slotMissed' = Missed(slotMissed \cup SlotsOver(cache, key), c2)
                  /\ wildT' = ScanAfterWrite(wildT, key)
                  /\ lastEv' = Dispatched("set", "configuration.created")
                  /\ setT' = [setT EXCEPT !.pc = "created"]
                  /\ UNCHANGED last
    /\ UNCHANGED <<callers, now, updatedAt, cronWorks, pollT, auxVars, migVars>>

\* after the await of `configuration.created`: `configuration.set` is
\* dispatched, with the value the slot holds now
SetEmitSet ==
    /\ setT.pc = "created"
    /\ IF ~HasOwn(cache, setT.key)
       THEN \* this.cache[key] is undefined
            /\ setT' = Idle
            /\ last' = SetReturned(setT, Undefined, "TypeError")
            /\ UNCHANGED <<cache, lastEv, slotMissed>>
       ELSE LET e2 == Event("configuration.set",
                            <<Change(setT.key, Undefined, ValueOf(cache[setT.key]))>>)
                c1 == EmitAsync(cache, e2)
            IN /\ cache' = c1
               /\ slotMissed' = Missed(slotMissed, c1)
               /\ lastEv' = Dispatched("set", "configuration.set")
               /\ setT' = [setT EXCEPT !.pc = "emitted"]
               /\ UNCHANGED last
    /\ UNCHANGED <<callers, store, now, updatedAt, cronWorks, pollT, wildT,
                   committed, auxVars, migVars>>

\* after the await of `configuration.set`: return this.cache[key].value
SetReturn ==
    /\ setT.pc = "emitted"
    /\ setT' = Idle
    /\ last' = IF HasOwn(cache, setT.key)
               THEN SetReturned(setT, ValueOf(cache[setT.key]), "none")
               ELSE SetReturned(setT, Undefined, "TypeError")
    /\ UNCHANGED <<callers, store, now, cache, updatedAt, cronWorks, pollT, wildT,
                   lastEv, committed, slotMissed, auxVars, migVars>>

\* save() resolves: the UPDATE (if a field changed) is committed,
\* `configuration.set` is dispatched with the value the slot holds now and
\* not awaited, and saved.value is returned
SetSaveDone ==
    /\ setT.pc = "save"
    /\ LET key == setT.key
           st1 == Save(store, now, key, setT.before, setT.value)
       IN /\ store' = st1
          /\ committed' = IF st1 = store THEN committed
                          ELSE [committed EXCEPT ![key] = @ \cup {setT.value}]
          /\ wildT' = IF st1 = store THEN wildT ELSE ScanAfterWrite(wildT, key)
          /\ IF ~HasOwn(cache, key)
             THEN /\ last' = SetReturned(setT, Undefined, "TypeError")
                  /\ slotMissed' = IF st1 = store THEN slotMissed
                                   ELSE slotMissed \cup SlotsOver(cache, key)
                  /\ UNCHANGED <<cache, lastEv>>
             ELSE LET e == Event("configuration.set",
                                 <<Change(key, setT.before, ValueOf(cache[key]))>>)
                      c1 == EmitAsync(cache, e)
                  IN /\ cache' = c1
                     /\ slotMissed' = Missed(IF st1 = store THEN slotMissed
                                             ELSE slotMissed \cup SlotsOver(cache, key),
                                             c1)
                     /\ lastEv' = Dispatched("set", "configuration.set")
                     /\ last' = SetSaved(setT, e)
    /\ setT' = Idle
    /\ UNCHANGED <<callers, now, updatedAt, cronWorks, pollT, auxVars, migVars>>

\* save() rejects (the store is unreachable): set() throws at the await, the
\* slot keeps the value it was given
SetSaveFail ==
    /\ setT.pc = "save"
    /\ setT.value # setT.before
    /\ setT' = Idle
    /\ last' = SetReturned(setT, Undefined, "SequelizeError")
    /\ UNCHANGED <<callers, store, now, cache, updatedAt, cronWorks, pollT, wildT,
                   lastEv, committed, slotMissed, auxVars, migVars>>

\* getWildcard(key): a hit returns the slot; a miss awaits the scan
GetWildcardBegin(key) ==
    /\ wildT.pc = "idle"
    /\ IF HasOwn(cache, WildName(key))
       THEN /\ last' = [op |-> "getWildcard", key |-> key,
                        retMap |-> IF cache[WildName(key)].kind = "map"
                                   THEN cache[WildName(key)].map ELSE <<>>,
                        queries |-> 0]
            /\ UNCHANGED wildT
       ELSE /\ wildT' = [pc |-> "scan", key |-> key]
            /\ UNCHANGED last
    /\ UNCHANGED <<callers, store, now, cache, updatedAt, cronWorks, pollT, setT,
                   lastEv, committed, slotMissed, auxVars, migVars>>

\* the store executes the scan: the rows it returns are those of this moment
GetWildcardScan ==
    /\ wildT.pc = "scan"
    /\ \E rows \in Orders(Matching(store, wildT.key)) :
          wildT' = [pc |-> "rows", key |-> wildT.key,
                    map |-> BuildMap(rows, store, wildT.key, <<>>),
                    missed |-> FALSE]
    /\ UNCHANGED <<callers, store, now, cache, updatedAt, cronWorks, last, pollT,
                   setT, lastEv, committed, slotMissed, auxVars, migVars>>

\* findAll resolves: the mapping built from its rows becomes the slot
GetWildcardDone ==
    /\ wildT.pc = "rows"
    /\ cache' = [cache EXCEPT ![WildName(wildT.key)] = MapSlot(wildT.map)]
    /\ slotMissed' = IF wildT.missed THEN slotMissed \cup {wildT.key}
                     ELSE slotMissed \ {wildT.key}
    /\ last' = [op |-> "getWildcard", key |-> wildT.key, retMap |-> wildT.map,
                queries |-> 1]
    /\ wildT' = Idle
    /\ UNCHANGED <<callers, store, now, updatedAt, cronWorks, pollT, setT,
                   lastEv, committed, auxVars, migVars>>

\* another process writes the row of `key` while calls are in flight
ExternalWriteAsync(key, value) ==
    /\ store' = [store EXCEPT ![key] = Row(value, now)]
    /\ committed' = [committed EXCEPT ![key] = @ \cup {value}]
    /\ setT' = IF setT.pc = "save" /\ setT.key = key
               THEN [setT EXCEPT !.ext = TRUE] ELSE setT
    /\ last' = [op |-> "external", key |-> key, value |-> value]
    /\ UNCHANGED <<callers, now, cache, updatedAt, cronWorks, pollT, wildT,
                   lastEv, slotMissed, auxVars, migVars>>

InitAsync ==
    /\ InitMig /\ dialect = "postgres"
    /\ callers \in AsyncDeployments
    /\ store = [k \in callers.keys |-> NoRow]
    /\ now = 1
    /\ cache = [x \in SlotNames(callers) |-> NoSlot]
    /\ updatedAt = Epoch
    /\ cronWorks = FALSE
    /\ last = NoCall
    /\ InitTasks
    /\ tableExists = TRUE

NextAsync ==
    \/ \E i \in callers.pollers \ {"reload"} : PollCall(i)
    \/ "reload" \in callers.pollers /\ ReloadCall
    \/ \E i \in Pollers : PollQueryDone(i)
    \/ \E i \in Pollers : PollQueryFail(i)
    \/ \E i \in Pollers : PollModified(i)
    \/ \E i \in Pollers : PollEnd(i)
    \/ \E k \in callers.keys, v \in callers.values : SetBegin(k, v)
    \/ SetCreateDone
    \/ SetEmitSet
    \/ SetReturn
    \/ SetSaveDone
    \/ SetSaveFail
    \/ \E p \in callers.prefixes : GetWildcardBegin(p)
    \/ GetWildcardScan
    \/ GetWildcardDone
    \/ \E k \in callers.keys, v \in Values : ExternalWriteAsync(k, v)
    \/ Tick

SpecAsync == InitAsync /\ [][NextAsync]_vars

---------------------------------------------------------------------------
(* The rows of the table (specification SpecTable) *)

\* create() is an INSERT: a call that took the create() path and wrote has
\* added one row for `key`; save() is an UPDATE and adds none
RowsAfter(rows, key, created, o) ==
    IF created /\ o.writes = 1 THEN [rows EXCEPT ![key] = @ + 1] ELSE rows

\* set(key, value), counting the rows it inserts: create() is called when
\* the key has no positive slot
SetRows(key, value) ==
    LET o == SetCall(cache, store, updatedAt, now, key, value)
    IN /\ cache' = o.cache
       /\ store' = o.store
       /\ last' = Call("set", key, value, o)
       /\ rowsOf' = RowsAfter(rowsOf, key,
                              ~HasOwn(cache, key) \/ cache[key] = FalseSlot, o)
       /\ UNCHANGED <<callers, now, updatedAt, cronWorks, asyncVars, tableExists,
                      getT, migVars>>

\* update(key, value), counting the rows it inserts: create() is called when
\* the key has a positive slot
UpdateRows(key, value) ==
    LET o == UpdateCall(cache, store, updatedAt, now, key, value)
    IN /\ cache' = o.cache
       /\ store' = o.store
       /\ last' = Call("update", key, value, o)
       /\ rowsOf' = RowsAfter(rowsOf, key,
                              HasOwn(cache, key) /\ cache[key] # FalseSlot, o)
       /\ UNCHANGED <<callers, now, updatedAt, cronWorks, asyncVars, tableExists,
                      getT, migVars>>

\* another process writes `key`: an UPDATE of its row, or an INSERT when the
\* table has none (the primary key binds every writer)
ExternalWriteRows(key, value) ==
    /\ store' = [store EXCEPT ![key] = Row(value, now)]
    /\ rowsOf' = IF store[key].present THEN rowsOf
                  ELSE [rowsOf EXCEPT ![key] = @ + 1]
    /\ last' = [op |-> "external", key |-> key, value |-> value]
    /\ UNCHANGED <<callers, now, cache, updatedAt, cronWorks, asyncVars,
                   tableExists, getT, migVars>>

NextTable ==
    \/ \E k \in callers.keys : Get(k)
    \/ \E k \in callers.keys, v \in Values : SetRows(k, v)
    \/ \E k \in callers.keys, v \in Values : UpdateRows(k, v)
    \/ \E k \in callers.keys, v \in Values : ExternalWriteRows(k, v)
    \/ Tick

SpecTable == Init /\ [][NextTable]_vars

---------------------------------------------------------------------------
(* The periodic poll (specification SpecPoll) *)

\* other processes write the table while the cron tick keeps firing
NextPoll ==
    \/ \E k \in callers.keys, v \in Values : ExternalWrite(k, v)
    \/ HandleRefreshConfiguration(FALSE)
    \/ Tick

\* the deployment whose keys no slot name starts with
InitPoll == Init /\ \A k \in callers.keys : ~StartsWith(NotExisting, k)

\* @Cron(EVERY_MINUTE): a tick that can run does run
SpecPoll ==
    InitPoll /\ [][NextPoll]_vars /\ WF_vars(HandleRefreshConfiguration(FALSE))

---------------------------------------------------------------------------
(* get() before the table exists (specification SpecStart) *)

\* the record of a get() call that returned or threw
GetReturned(key, ret, threw) ==
    [op |-> "get", key |-> key, ret |-> ret, threw |-> threw]

\* get(key), entered by a caller or re-entered after the delay: a slot is
\* returned, a miss awaits findOne
GetEnter(key) ==
    IF HasOwn(cache, key)
    THEN /\ getT' = Idle
         /\ last' = GetReturned(key, IF cache[key] = FalseSlot THEN Undefined
                                     ELSE ValueOf(cache[key]), "none")
    ELSE /\ getT' = [pc |-> "findOne", key |-> key]
         /\ UNCHANGED last

GetBegin(key) ==
    /\ getT.pc = "idle"
    /\ GetEnter(key)
    /\ UNCHANGED <<callers, store, now, cache, updatedAt, cronWorks, asyncVars,
                   rowsOf, tableExists, migVars>>

\* findOne settles. While the table is missing it rejects with 'relation
\* "configuration" does not exist' and get awaits delay(1000); another error
\* is thrown to the caller; a result becomes the slot and is returned
GetFindOne ==
    /\ getT.pc = "findOne"
    /\ LET key == getT.key
       IN IF ~tableExists
          THEN /\ getT' = [pc |-> "delay", key |-> key]
               /\ UNCHANGED <<cache, last>>
          ELSE \/ /\ cache' = [cache EXCEPT ![key] =
                                   IF store[key].present
                                   THEN Entity(key, store[key].value)
                                   ELSE FalseSlot]
                  /\ getT' = Idle
                  /\ last' = GetReturned(key, IF store[key].present
                                              THEN store[key].value
                                              ELSE Undefined, "none")
               \/ /\ getT' = Idle
                  /\ last' = GetReturned(key, Undefined, "SequelizeError")
                  /\ UNCHANGED cache
    /\ UNCHANGED <<callers, store, now, updatedAt, cronWorks, asyncVars,
                   rowsOf, tableExists, migVars>>

\* the delay elapses: `return this.get(key)`
GetRetry ==
    /\ getT.pc = "delay"
    /\ GetEnter(getT.key)
    /\ UNCHANGED <<callers, store, now, cache, updatedAt, cronWorks, asyncVars,
                   rowsOf, tableExists, migVars>>

\* the bootstrap of DbModule (sync, migrations) creates the table
CreateTable ==
    /\ ~tableExists
    /\ tableExists' = TRUE
    /\ UNCHANGED <<callers, store, now, cache, updatedAt, cronWorks, last,
                   asyncVars, rowsOf, getT, migVars>>

\* a process whose cache serves get() before the table exists
InitStart ==
    /\ InitMig /\ dialect = "postgres"
    /\ callers \in Deployments
    /\ store = [k \in callers.keys |-> NoRow]
    /\ now = 1
    /\ cache = [x \in SlotNames(callers) |-> NoSlot]
    /\ updatedAt = Epoch
    /\ cronWorks = FALSE
    /\ last = NoCall
    /\ InitTasks
    /\ tableExists = FALSE

NextStart ==
    \/ \E k \in callers.keys : GetBegin(k)
    \/ GetFindOne
    \/ GetRetry
    \/ CreateTable
    \/ tableExists /\ \E k \in callers.keys, v \in Values : ExternalWrite(k, v)
    \/ Tick

\* a query that was issued settles and a timer that was set fires; nothing
\* makes the table appear
SpecStart ==
    InitStart /\ [][NextStart]_vars /\ WF_vars(GetFindOne) /\ WF_vars(GetRetry)

---------------------------------------------------------------------------
(* Claims about the configuration cache (specification Spec) *)

\* a step that completes a call `op` (calls never move the clock)
IsCall(op) == last'.op = op /\ now' = now

\* C1: get(k) on a key with no row and no slot returns not-found and leaves
\* a negative slot; a get(k) that finds the negative slot returns not-found
\* without a store query; and the negative slot stays until a set, a poll or
\* a reload (a write of k, a poll change of k, or an invalidation) runs.
C1_NegativeCaching ==
    [][\A k \in callers.keys :
          /\ (IsCall("get") /\ last'.key = k /\ ~HasOwn(cache, k) /\ ~store[k].present)
                => /\ last'.ret = Undefined
                   /\ last'.threw = "none"
                   /\ last'.queries = 1
                   /\ cache'[k] = FalseSlot
          /\ (IsCall("get") /\ last'.key = k /\ cache[k] = FalseSlot)
                => /\ last'.ret = Undefined
                   /\ last'.threw = "none"
                   /\ last'.queries = 0
                   /\ cache'[k] = FalseSlot
          /\ (cache[k] = FalseSlot /\ cache'[k] # FalseSlot)
                => last'.op \in {"set", "poll", "firstRun", "reload"}]_vars

\* C1 witness: a get served from a negative slot, without a query
C1_Witness ==
    /\ last.op = "get"
    /\ last.queries = 0
    /\ last.ret = Undefined
    /\ cache[last.key] = FalseSlot

\* C2: when set(k, v) completed successfully and the next call is get(k),
\* that get returns v and issues no store query.
C2_SetThenGet ==
    [][(last.op = "set" /\ last.threw = "none" /\ IsCall("get") /\ last'.key = last.key)
          => (last'.ret = last.value /\ last'.queries = 0)]_vars

\* C3: a successful set(p + s, v) leaves no wildcard slot for p, and a
\* getWildcard(p) that follows it scans the store and returns a mapping with
\* s -> v.
C3_WildcardAfterSet ==
    [][\A p \in callers.prefixes :
          /\ (IsCall("set") /\ last'.threw = "none" /\ StartsWith(last'.key, p))
                => ~HasOwn(cache', WildName(p))
          /\ (last.op = "set" /\ last.threw = "none" /\ StartsWith(last.key, p)
              /\ IsCall("getWildcard") /\ last'.key = p)
                => LET s == Slice(last.key, Len(p))
                   IN /\ last'.queries = 1
                      /\ s \in DOMAIN last'.retMap
                      /\ last'.retMap[s] = last.value]_vars

\* C5: a poll cycle that finds N >= 1 rows newer than the watermark
\* dispatches those N rows in ascending updatedAt order and leaves the
\* watermark at the updatedAt of the last row of the batch.
C5_PollOrder ==
    [][LET wm == IF last'.op = "reload" THEN Epoch ELSE updatedAt
           found == Changed(store, wm)
       IN ((IsCall("poll") \/ IsCall("firstRun") \/ IsCall("reload")) /\ found # {})
          => /\ last'.events # <<>>
             /\ \A e \in 1..Len(last'.events) :
                  LET b == last'.events[e].payload
                  IN /\ Len(b) = Cardinality(found)
                     /\ { b[i].field : i \in 1..Len(b) } = found
                     /\ \A i, j \in 1..Len(b) :
                          i < j => store[b[i].field].updatedAt
                                     <= store[b[j].field].updatedAt
                     /\ \A i \in 1..Len(b) : b[i].after = store[b[i].field].value
                     /\ updatedAt' = store[b[Len(b)].field].updatedAt]_vars

\* C5 witness: a poll dispatched two rows of different updatedAt
C5_Witness ==
    /\ last.op = "poll"
    /\ Len(last.events) = 2
    /\ Len(last.events[1].payload) = 2
    /\ store[last.events[1].payload[1].field].updatedAt
         < store[last.events[1].payload[2].field].updatedAt
    /\ updatedAt = store[last.events[1].payload[2].field].updatedAt

\* C6: a full reload (no poll in flight) dispatches its batch as one
\* `configuration.read` event, and the batch holds every persisted key.
C6_ReloadDispatchesRead ==
    (last.op = "reload" /\ \E k \in DOMAIN store : store[k].present)
        => /\ Len(last.events) = 1
           /\ last.events[1].name = "configuration.read"
           /\ { last.events[1].payload[i].field :
                  i \in 1..Len(last.events[1].payload) }
                = { k \in DOMAIN store : store[k].present }

\* C7: set(k, v) on a key with no positive slot inserts one row for k,
\* dispatches one `configuration.created` and then one `configuration.set`
\* event, each {field: k, before: absent, after: v}, leaves a positive slot
\* holding v and returns v.
C7_SetCreates ==
    [][\A k \in callers.keys :
          (IsCall("set") /\ last'.key = k /\ cache[k].kind \in {"none", "false"})
             => /\ last'.threw = "none"
                /\ last'.writes = 1
                /\ ~store[k].present
                /\ store'[k].present /\ store'[k].value = last'.value
                /\ \A f \in DOMAIN store \ {k} : store'[f] = store[f]
                /\ last'.events =
                     << Event("configuration.created",
                              <<Change(k, Undefined, last'.value)>>),
                        Event("configuration.set",
                              <<Change(k, Undefined, last'.value)>>) >>
                /\ cache'[k] = Entity(k, last'.value)
                /\ last'.ret = last'.value]_vars

\* C13: after the wildcard invalidation for a written field f (the listeners
\* of a dispatched `configuration.set` or `configuration.modified` event), no
\* wildcard slot remains for any prefix p whose scan would match f, matching
\* being the scan's case-insensitive 'starts with'.
C13_InvalidationMatchesScan ==
    [][\A p \in callers.prefixes :
          \A e \in 1..Len(IF last'.op \in {"set", "update", "poll", "reload"}
                           THEN last'.events ELSE <<>>) :
             LET ev == last'.events[e]
             IN (now' = now /\ ev.name \in {"configuration.set", "configuration.modified"})
                  => \A i \in 1..Len(ev.payload) :
                        ILike(ev.payload[i].field, p)
                           => ~HasOwn(cache', WildName(p))]_vars

\* C14: update(k, v) on a key with no positive slot (no slot, or a negative
\* one) returns not-found, writes nothing to the store, dispatches no event
\* and leaves the cache as it was.
C14_UpdateRefuses ==
    [][\A k \in callers.keys :
          (IsCall("update") /\ last'.key = k /\ cache[k].kind \in {"none", "false"})
             => /\ last'.ret = Undefined
                /\ last'.threw = "none"
                /\ last'.writes = 0
                /\ last'.events = <<>>
                /\ store' = store
                /\ cache' = cache]_vars

\* C14 witness: an update of a key whose slot is negative returned
\* not-found while other keys have rows
C14_Witness ==
    /\ last.op = "update"
    /\ last.ret = Undefined
    /\ last.threw = "none"
    /\ cache[last.key] = FalseSlot
    /\ \E k \in DOMAIN store : store[k].present

\* C23: point slots and wildcard slots are isolated: getWildcard and the
\* wildcard invalidation of a write leave every point slot of another key as
\* it was, and get leaves every wildcard slot as it was.
C23_SlotsIsolated ==
    [][/\ \A k \in callers.keys :
             (\/ IsCall("getWildcard")
              \/ ((IsCall("set") \/ IsCall("update")) /\ last'.key # k))
                => cache'[k] = cache[k]
       /\ \A p \in callers.prefixes :
             IsCall("get") => cache'[WildName(p)] = cache[WildName(p)]]_vars

---------------------------------------------------------------------------
(* Claims about the migration run (specification SpecMig) *)

\* the up() calls and the records of this run, as sequences of log entries
Ups == SelectSeq(runLog, LAMBDA e : e.kind = "up")
Records == SelectSeq(runLog, LAMBDA e : e.kind = "record")

Names(entries) == [i \in 1..Len(entries) |-> entries[i].name]

IsPrefix(a, b) == Len(a) <= Len(b) /\ SubSeq(b, 1, Len(a)) = a

\* the migration files of one directory, in its listing order
DirUnits(path) ==
    IF path = "missing" THEN <<>>
    ELSE SelectSeq(ReaddirSync(path), LAMBDA f : f[2] \in {".ts", ".js"})

\* the declared order: the base migrations, then the units of each
\* registered module in registration order
RECURSIVE RegisteredUnits(_)
RegisteredUnits(registered) ==
    IF registered = <<>> THEN <<>>
    ELSE DirUnits(Head(registered).path) \o RegisteredUnits(Tail(registered))

DeclaredOrder == DirUnits(BasePath) \o RegisteredUnits(migrationPaths)

\* C4: a run that follows a successfully completed run of the same units
\* against the same store executes up() for no unit and adds no record.
C4_SecondRunAppliesNothing ==
    (/\ runs >= 2
     /\ prevRun.ended = "started"
     /\ prevRun.paths = migrationPaths
     /\ pc \in {"migrating", "logging", "started", "exited"})
        => /\ runLog = <<>>
           /\ meta = startMeta
           /\ pc \in {"migrating", "started"}

\* C4 witness: the second run has completed after a first run that applied
\* the units of a registered module
C4_Witness ==
    /\ runs >= 2
    /\ prevRun.ended = "started"
    /\ prevRun.paths = migrationPaths
    /\ Len(migrationPaths) >= 1
    /\ dialect = "postgres"
    /\ Cardinality(meta) >= 2
    /\ pc = "started"

\* C8: when up() of a pending unit fails, the run halts: no up() is called
\* after it, no record is written for it, and the records of the units that
\* succeeded before it are in the store.
C8_FailureHalts ==
    \A i \in 1..Len(runLog) :
        (runLog[i].kind = "up" /\ ~runLog[i].ok)
           => /\ i = Len(runLog)
              /\ pc = "exited"
              /\ \A j \in 1..Len(runLog) :
                    runLog[j].kind = "record" => runLog[j].idx < runLog[i].idx
              /\ meta = startMeta \cup { Records[j].name : j \in 1..Len(Records) }
              /\ Len(Records) = Len(Ups) - 1

\* C8 witness: up() failed after two units had been applied and recorded,
\* with a pending unit left
C8_Witness ==
    /\ Len(runLog) >= 5
    /\ ~runLog[Len(runLog)].ok
    /\ Len(Records) >= 2
    /\ idx < Len(pending)

\* C9: a run applies the units whose name is not in the applied set, in
\* the declared order, and the record of each unit is written before up()
\* of the next unit starts.
C9_PendingInDeclaredOrder ==
    LET Pend == SelectSeq(DeclaredOrder, LAMBDA n : n \notin startMeta)
    IN (dialect # "sqlite" /\ pc \in {"migrating", "logging", "started", "exited"})
         => /\ IsPrefix(Names(Ups), Pend)
            /\ pc = "started" => Names(Ups) = Pend
            /\ \A i \in 2..Len(runLog) :
                 runLog[i].kind = "up"
                    => /\ runLog[i - 1].kind = "record"
                       /\ runLog[i - 1].idx = runLog[i].idx - 1
                       /\ runLog[i - 1].name \in meta

\* C9 witness: a completed run of two registered modules that applied
\* three units or more and skipped units applied by an earlier run
C9_Witness ==
    /\ pc = "started"
    /\ dialect = "postgres"
    /\ Len(migrationPaths) = 2
    /\ startMeta # {}
    /\ Len(Ups) >= 3

\* C10: across all runs and registrations, up() is executed at most once
\* per unit name.
C10_UpAtMostOncePerName ==
    \A n \in DOMAIN upDone : upDone[n] <= 1

\* C11: when up() of a unit fails during bootstrap, the failure ends the
\* process: the bootstrap is at process.exit(1) and stays there, and it never
\* reaches 'Database Started' (only a new process starts over).
C11_FailedUpEndsProcess ==
    [][/\ (\E i \in 1..Len(runLog') : runLog'[i].kind = "up" /\ ~runLog'[i].ok)
            => pc' = "exited"
       /\ pc = "exited" => (pc' = "exited" \/ (pc' = "idle" /\ runs' = runs + 1))]_vars

\* C11 witness: up() of the first pending unit of a registered module's run
\* failed and the process exited
C11_Witness ==
    /\ pc = "exited"
    /\ Len(runLog) = 1
    /\ runLog[1].kind = "up" /\ ~runLog[1].ok
    /\ Len(migrationPaths) >= 1

---------------------------------------------------------------------------
(* Claims about calls in flight (specification SpecAsync) *)

\* the handleRefreshConfiguration calls between their first line and their end
InFlight == { i \in Pollers : pollT[i].pc # "idle" }

\* C12: at most one poll cycle is in flight, and a poll call made while one
\* is in flight returns at once: it starts no store query, changes neither
\* the cache nor the watermark, and dispatches no event.
C12_SingleFlight ==
    [][/\ Cardinality({ i \in Pollers : pollT'[i].pc # "idle" }) <= 1
       /\ \A i \in Pollers \ {"reload"} :
             (/\ InFlight # {}
              /\ pollT[i].pc = "idle"
              /\ \/ pollT'[i].pc = "query"
                 \/ (last' # last /\ last'.op = "poll" /\ last'.by = i))
                => /\ last'.op = "poll" /\ last'.ret = "skipped"
                   /\ pollT' = pollT
                   /\ cache' = cache
                   /\ updatedAt' = updatedAt
                   /\ lastEv' = lastEv
                   /\ store' = store]_vars

\* C12 witness: the cron tick returned at once while the poll of a reload
\* was between its two events
C12_Witness ==
    /\ last.op = "poll"
    /\ last.ret = "skipped"
    /\ pollT["reload"].pc = "updated"
    /\ pollT["cron"].pc = "idle"

\* C16: a reload that arrives while a poll is in flight returns the 'in
\* progress' status, leaves the watermark, the cache and the guard flag as
\* they were and starts no store query.
C16_ReloadIgnored ==
    [][(/\ InFlight # {}
        /\ pollT["reload"].pc = "idle"
        /\ \/ pollT'["reload"].pc = "query"
           \/ (last' # last /\ last'.op = "reload"))
          => /\ last'.op = "reload" /\ last'.ret = "in progress"
             /\ updatedAt' = updatedAt
             /\ cache' = cache
             /\ cronWorks' = cronWorks
             /\ pollT' = pollT
             /\ store' = store]_vars

\* C16 witness: a reload was ignored while a poll that has not moved the
\* watermark yet is in flight
C16_Witness ==
    /\ last.op = "reload"
    /\ last.ret = "in progress"
    /\ cronWorks
    /\ pollT["cron"].pc = "modified"
    /\ updatedAt < pollT["cron"].lastAt

\* C15: when set(k, v), with v other than the cached value, awaited its save
\* while k was written externally and two polls then ran, once the set and
\* both polls have completed the cached value of k is the value the store
\* holds for k (the write with the later updatedAt).
C15_SetRacesPolls ==
    [][\A k \in callers.keys :
          (/\ setT.pc = "save" /\ setT.key = k /\ setT.value # setT.before
           /\ setT.ext /\ setT.polls = 2
           /\ setT'.pc = "idle" /\ last'.op = "set" /\ last'.threw = "none"
           /\ \A i \in Pollers : pollT'[i].pc = "idle")
             => /\ cache'[k].kind = "entity"
                /\ store'[k].present
                /\ cache'[k].value = store'[k].value]_vars

\* C17: once a local write under prefix p and its invalidation have
\* completed, no wildcard slot for p holds a mapping built from a scan that
\* did not see the write.
C17_NoStaleWildcardSlot ==
    \A p \in callers.prefixes :
        (setT.pc = "idle" /\ HasOwn(cache, WildName(p))) => p \notin slotMissed

\* C18: the events of one poll cycle (updated, then modified) and of one
\* write (created, then set) are dispatched in sequence: no event of another
\* call is dispatched between them.
C18_EventsPerOperation ==
    [][(/\ lastEv.name \in {"configuration.updated", "configuration.created"}
        /\ lastEv' # lastEv)
          => lastEv'.by = lastEv.by]_vars

\* C19: the single-flight guard is released on every exit path of a poll
\* cycle: the flag is set only while a poll cycle is in flight.
C19_GuardReleased ==
    cronWorks => InFlight # {}

\* C20: the value in a positive slot for k is a value the store has
\* committed for k: a value whose persist is in flight or has failed is not
\* in the cache.
C20_CachedIsCommitted ==
    \A k \in callers.keys :
        cache[k].kind = "entity" => cache[k].value \in committed[k]

\* C25: set(k, v) on a positively cached key dispatches one
\* `configuration.set` event with before = the value cached for k when set
\* was called and after = v, and returns v, whatever polls did to the slot of
\* k while the save was awaited.
C25_SetEventAfterIsValue ==
    [][/\ (setT.pc = "idle" /\ setT'.pc = "save")
            => setT'.before = ValueOf(cache[setT'.key])
       /\ (setT.pc = "save" /\ setT'.pc = "idle"
            /\ last'.op = "set" /\ last'.threw = "none")
            => /\ last'.ret = setT.value
               /\ last'.events =
                    << Event("configuration.set",
                             <<Change(setT.key, setT.before, setT.value)>>) >>]_vars

---------------------------------------------------------------------------
(* Claims about the rows of the table (specification SpecTable) *)

\* C22: after any sequence of set, update and external writes the table
\* holds at most one row per field; set on an uncached key whose row exists
\* and update on a positively cached key leave no second row.
C22_OneRowPerField ==
    \A k \in callers.keys :
        /\ rowsOf[k] <= 1
        /\ store[k].present <=> rowsOf[k] = 1

\* C22 witness: set on a key with no slot whose row exists was rejected by
\* the primary key, and the row of the other, positively cached key is
\* still the only one
C22_Witness ==
    /\ last.op = "set"
    /\ last.threw = "UniqueConstraintError"
    /\ rowsOf[last.key] = 1
    /\ \E k \in callers.keys \ {last.key} :
          cache[k].kind = "entity" /\ rowsOf[k] = 1

---------------------------------------------------------------------------
(* Claims about the periodic poll (specification SpecPoll) *)

\* every key some deployment uses
AllKeys == UNION { d.keys : d \in Deployments }

\* the slot of k is not the row the store holds for k
Stale(k) == store[k].present /\ cache[k] # Entity(k, store[k].value)

\* C24: while the poll tick keeps firing, every write another process
\* commits for k is eventually reflected: unless k keeps being written, the
\* slot of k is again and again the store's row for k, whatever the commit
\* timestamp of the write.
C24_EventuallyVisible ==
    \A k \in AllKeys :
        []<>(\/ k \notin DOMAIN store
             \/ ~Stale(k)
             \/ (last.op = "external" /\ last.key = k))

---------------------------------------------------------------------------
(* Claims about get() before the table exists (specification SpecStart) *)

\* C21: get(k) terminates in every execution: whenever a call is in flight
\* it returns or throws later, also while the table stays absent.
C21_GetTerminates ==
    []<>(getT.pc = "idle")

====
